---------------------------- MODULE Spec2Model ----------------------------
(***************************************************************************)
(* Blockchain-Analyzer backend: the Neo4j address graph and the operations *)
(* that read and write it (ingestion, cluster assignment, anomaly scoring, *)
(* sanction marking, severity evaluation).                                 *)
(*                                                                         *)
(* Every session.run(...) of the source is one atomic store query.  A      *)
(* handler that issues several queries is modelled query by query, so that *)
(* concurrent requests interleave between queries.                         *)
(***************************************************************************)
EXTENDS Integers, Sequences, FiniteSets, TLC

(***************************************************************************)
(* Program constants                                                       *)
(***************************************************************************)
MAX_CLUSTER_DEPTH == 6

BATCH_SIZE == 50

MAX_BATCH == 500

ADDRESS_HEX_LEN == 40

\* evaluate_alert_severity's thresholds on risk_score, in hundredths.
HIGH_RISK == 95

MEDIUM_RISK == 75

ELEVATED_RISK == 50

\* Cypher null: a property that was never set.
NULL == -1

NULL_STR == "null"

(***************************************************************************)
(* Bounds of the model                                                     *)
(***************************************************************************)
\* Transactions the ingestion paths can be handed (general specification).
PoolSize == 1

\* Longest blacklist a MarkSanctioned call is handed.
MaxListLen == 2

\* Requests the clustering engine alone is sent, one after the other.
MaxCalls == 2

\* Requests the whole service is sent.
MaxRequests == 3

\* Stores of up to this many addresses come with every graph over their
\* transaction pool; larger stores are chains.
SmallStore == 3

\* Addresses: just enough for one component to exceed the clustering depth
\* window (a path of MAX_CLUSTER_DEPTH + 1 edges).
NumAddr == MAX_CLUSTER_DEPTH + 2

Addr == 1..NumAddr

Runs == {1, 2}

\* Request threads of the worker pool.
Threads == {1, 2}

Max(a, b) == IF a >= b THEN a ELSE b

Min(a, b) == IF a <= b THEN a ELSE b

(***************************************************************************)
(* Address text.  An address is stored under its text; the model interns   *)
(* the texts of the store keys as 1..NumAddr and converts with AddrText.   *)
(***************************************************************************)
AddrDigits == <<"a", "b", "c", "d", "e", "f", "1", "2", "3", "4">>

Repeat(c, n) == [i \in 1..n |-> c]

\* The canonical text of address a: 0x and forty times its digit.
AddrTexts ==
  [a \in Addr |-> <<"0", "x">> \o Repeat(AddrDigits[a], ADDRESS_HEX_LEN)]

AddrText(a) == AddrTexts[a]

LowerHex == {"0", "1", "2", "3", "4", "5", "6", "7", "8", "9",
             "a", "b", "c", "d", "e", "f"}

UpperHex == {"A", "B", "C", "D", "E", "F"}

Whitespace == {" ", "\t", "\n"}

UpperOf(c) ==
  CASE c = "a" -> "A" [] c = "b" -> "B" [] c = "c" -> "C" [] c = "d" -> "D"
    [] c = "e" -> "E" [] c = "f" -> "F" [] c = "x" -> "X" [] c = "g" -> "G"
    [] OTHER -> c

\* str.lower() on one character.
LowerChar(c) ==
  CASE c = "A" -> "a" [] c = "B" -> "b" [] c = "C" -> "c" [] c = "D" -> "d"
    [] c = "E" -> "e" [] c = "F" -> "f" [] c = "X" -> "x" [] c = "G" -> "g"
    [] c = "I" -> "i" [] c = "K" -> "k" [] c = "M" -> "m" [] c = "N" -> "n"
    [] c = "O" -> "o" [] c = "P" -> "p" [] c = "T" -> "t" [] c = "Y" -> "y"
    [] OTHER -> c

Lower(s) == [i \in 1..Len(s) |-> LowerChar(s[i])]

RECURSIVE LStrip(_)
LStrip(s) == IF s # <<>> /\ Head(s) \in Whitespace THEN LStrip(Tail(s)) ELSE s

RECURSIVE RStrip(_)
RStrip(s) ==
  IF s # <<>> /\ s[Len(s)] \in Whitespace
  THEN RStrip(SubSeq(s, 1, Len(s) - 1)) ELSE s

\* str.strip()
Strip(s) == RStrip(LStrip(s))

\* ADDRESS_PATTERN.fullmatch: ^0x[a-fA-F0-9]{40}$
MatchesAddressPattern(s) ==
  /\ Len(s) = 2 + ADDRESS_HEX_LEN
  /\ s[1] = "0"
  /\ s[2] = "x"
  /\ \A i \in 3..Len(s) : s[i] \in LowerHex \cup UpperHex

\* normalize_eth_address raises ValueError exactly when this is FALSE.
IsValidEthAddress(value) == MatchesAddressPattern(Strip(value))

\* normalize_eth_address, where it returns.
normalize_eth_address(value) == Lower(Strip(value))

(***************************************************************************)
(* What callers may hand in where an address is expected.                  *)
(***************************************************************************)
\* The same address in capital hex digits.
UpperText(a) == <<"0", "x">> \o Repeat(UpperOf(AddrDigits[a]), ADDRESS_HEX_LEN)

\* The same address with white space around it.
PaddedText(a) == <<" ">> \o AddrText(a) \o <<"\n">>

\* One digit short.
ShortText(a) == SubSeq(AddrText(a), 1, 1 + ADDRESS_HEX_LEN)

\* Forty-two characters, 0x in front, no hex digits behind.
NonHexText == <<"0", "x">> \o Repeat("g", ADDRESS_HEX_LEN)

WordText == <<"i", "n", "v", "a", "l", "i", "d">>

\* MERGE (:Address {address: tx.from_address}) takes whatever text it is
\* given as the key.  The texts ingestion can hand it that are not the text
\* of an address of Addr are interned behind Addr.
OddKeyTexts == <<NonHexText, PaddedText(1)>>

OddKeys == {NumAddr + i : i \in 1..Len(OddKeyTexts)}

Keys == Addr \cup OddKeys

KeyText(k) == IF k \in Addr THEN AddrText(k) ELSE OddKeyTexts[k - NumAddr]

InternKey(text) == CHOOSE k \in Keys : KeyText(k) = text

\* The spellings of address a that are well formed.
Spellings(a) == {AddrText(a), UpperText(a), PaddedText(a)}

(***************************************************************************)
(* State                                                                   *)
(***************************************************************************)
VARIABLES
  nodes,            \* (:Address) nodes of the store, interned
  edges,            \* [:SENT] relationships: records [from, to, hash]
  cluster_id,       \* a.cluster_id, NULL when unset
  risk_score,       \* a.risk_score in hundredths, NULL when unset
  is_sanctioned,    \* a.is_sanctioned is true (it is never written false)
  alert_severity,   \* a.alert_severity, NULL_STR when unset
  pc,               \* per clustering request: where assign_clusters stands
  batch_size,       \* per clustering request: the clamped batch size
  pending,          \* per request: addresses of the fetched batch not yet looped over
  address,          \* per request: the loop variable
  cluster_members,  \* per request: result of the last component query
  assigned_total,   \* per request: the running total
  response,         \* per request: what run_clustering answered last
  calls,            \* per worker: requests taken so far
  score_pc,         \* where run_anomaly_detection stands
  score_rows,       \* the addresses its feature query returned
  last,             \* the last compliance call that returned, and its value
  budget,           \* requests that may still arrive
  at_start,         \* history: cluster_id as it was when the request began
  before_batch,     \* history: unclustered addresses when the batch was fetched
  first_id,         \* history: the first cluster_id each address was given
  rels,             \* per SENT key of edges: how many relationships, and value_wei
  request,          \* the request an endpoint received last
  reply,            \* what the last trace, profile, alert or ingest request answered
  driver,           \* _DRIVER of db/neo4j_client.py, NULL when None
  built,            \* drivers constructed so far
  live,             \* drivers constructed and not closed
  tpc,              \* per thread: where its get_driver call stands
  held              \* per thread: the driver its last get_driver returned

storeVars == <<nodes, edges, rels, cluster_id, risk_score, is_sanctioned,
               alert_severity>>

runVars == <<pc, batch_size, pending, address, cluster_members, assigned_total,
             response, calls, at_start, before_batch>>

scoreVars == <<score_pc, score_rows>>

driverVars == <<driver, built, live, tpc, held>>

apiVars == <<request, reply, driverVars>>

vars == <<storeVars, runVars, scoreVars, last, budget, first_id, apiVars>>

Unclustered == {a \in nodes : cluster_id[a] = NULL}

\* A request arrives.
Receive == budget > 0 /\ budget' = budget - 1

\* History of the store: the first non-null cluster_id seen on each address.
FirstIdAfter(new_cluster_id) ==
  [a \in Keys |-> IF first_id[a] = NULL THEN new_cluster_id[a] ELSE first_id[a]]

(***************************************************************************)
(* Clustering: utils/clustering.py and api/address.py                      *)
(***************************************************************************)
\* run_clustering: int(batch_size) if batch_size else BATCH_SIZE, then clamp.
ClampBatch(b) ==
  LET real_batch == IF b # 0 THEN b ELSE BATCH_SIZE
  IN  Max(1, Min(MAX_BATCH, real_batch))

\* What a LIMIT $limit query over the unclustered addresses may return: any
\* selection of the size the limit allows (the store chooses which and in
\* which order; the order is resolved as the loop takes its next element).
FetchUnclustered(limit) ==
  {S \in SUBSET Unclustered : Cardinality(S) = Min(limit, Cardinality(Unclustered))}

\* A faulty variant: the pattern follows SENT in its direction only.
AdjacentDirected(a, b) == \E e \in edges : e.from = a /\ e.to = b

\* (a)-[:SENT]-(b): an edge between the two, in either direction.
Adjacent(a, b) ==
  \E e \in edges : (e.from = a /\ e.to = b) \/ (e.from = b /\ e.to = a)

\* One more undirected hop from the addresses of S.
Grow(S) == S \cup {b \in nodes : \E a \in S : Adjacent(a, b)}

\* (start)-[:SENT*0..d]-(member): members within d undirected hops.
RECURSIVE Within(_, _)
Within(seed, d) ==
  IF d = 0 THEN {seed}
  ELSE UNION {Grow(near) : near \in {Within(seed, d - 1)}}

\* A faulty variant: the pattern is *1..6 and the start is not a member.
ComponentMembersBeyondSeed(seed) ==
  IF seed \in nodes THEN Within(seed, MAX_CLUSTER_DEPTH) \ {seed} ELSE {}

\* _component_members: the distinct addresses the pattern reaches.
ComponentMembers(seed) ==
  IF seed \in nodes THEN Within(seed, MAX_CLUSTER_DEPTH) ELSE {}

\* A faulty variant: the identifier is generated once per request, before
\* the loop.
Uuid4PerRequest(r, seed) == r

\* str(uuid4()): an identifier no earlier call returned.  The model names the
\* identifier after the request r and the seed address that it was generated
\* for: a request takes an address as seed at most once (the seed is within
\* depth 0 of itself, so it is clustered afterwards and no later fetch returns
\* it), so no two calls share a name.
Uuid4(r, seed) == (seed - 1) * Cardinality(Runs) + r

\* A faulty variant: SET a.cluster_id = $cluster_id, without the coalesce.
AssignClusterOverwrite(members, id) ==
  [a \in Keys |-> IF a \in members /\ a \in nodes THEN id ELSE cluster_id[a]]

\* SET a.cluster_id = coalesce(a.cluster_id, $cluster_id) over the members.
AssignCluster(members, id) ==
  [a \in Keys |->
     IF a \in members /\ a \in nodes
     THEN IF cluster_id[a] # NULL THEN cluster_id[a] ELSE id
     ELSE cluster_id[a]]

NoResponse == [status |-> 0]

OkResponse(n) == [status |-> 200, assigned_addresses |-> n]

\* HTTPException(502, "Failed to compute clusters")
FailedResponse == [status |-> 502, detail |-> "Failed to compute clusters"]

\* A faulty variant: the running total is kept from one call to the next.
StartKeepsTotal(r, b) ==
  /\ Receive
  /\ pc[r] \in {"idle", "done", "failed"}
  /\ \A q \in Runs : q < r => pc[q] \in {"fetch", "component", "assign"}
  /\ calls' = [calls EXCEPT ![r] = @ + 1]
  /\ pc' = [pc EXCEPT ![r] = "fetch"]
  /\ batch_size' = [batch_size EXCEPT ![r] = ClampBatch(b)]
  /\ response' = [response EXCEPT ![r] = NoResponse]
  /\ at_start' = [at_start EXCEPT ![r] = cluster_id]
  /\ before_batch' = [before_batch EXCEPT ![r] = NULL]
  /\ UNCHANGED apiVars
  /\ UNCHANGED <<storeVars, scoreVars, last, first_id, pending, address,
                 cluster_members, assigned_total>>

\* POST /address/cluster arrives and the first free worker r takes it: clamp,
\* get_driver(), assigned_total = 0.
Start(r, b) ==
  /\ Receive
  /\ pc[r] \in {"idle", "done", "failed"}
  /\ \A q \in Runs : q < r => pc[q] \in {"fetch", "component", "assign"}
  /\ calls' = [calls EXCEPT ![r] = @ + 1]
  /\ pc' = [pc EXCEPT ![r] = "fetch"]
  /\ batch_size' = [batch_size EXCEPT ![r] = ClampBatch(b)]
  /\ assigned_total' = [assigned_total EXCEPT ![r] = 0]
  /\ response' = [response EXCEPT ![r] = NoResponse]
  /\ at_start' = [at_start EXCEPT ![r] = cluster_id]
  /\ before_batch' = [before_batch EXCEPT ![r] = NULL]
  /\ UNCHANGED apiVars
  /\ UNCHANGED <<storeVars, scoreVars, last, first_id, pending, address,
                 cluster_members>>

\* pending = _fetch_unclustered_addresses(...); if not pending: break, and
\* return assigned_total; else the loop takes its first address.
Fetch(r) ==
  /\ pc[r] = "fetch"
  /\ \E S \in FetchUnclustered(batch_size[r]) :
       IF S = {}
       THEN /\ pc' = [pc EXCEPT ![r] = "done"]
            /\ response' = [response EXCEPT ![r] = OkResponse(assigned_total[r])]
            /\ UNCHANGED <<pending, address, before_batch>>
       ELSE \E first \in S :
            /\ pc' = [pc EXCEPT ![r] = "component"]
            /\ address' = [address EXCEPT ![r] = first]
            /\ pending' = [pending EXCEPT ![r] = S \ {first}]
            /\ before_batch' = [before_batch EXCEPT ![r] = Cardinality(Unclustered)]
            /\ UNCHANGED response
  /\ UNCHANGED apiVars
  /\ UNCHANGED <<budget, storeVars, scoreVars, last, first_id, batch_size,
                 cluster_members, assigned_total, at_start, calls>>

\* cluster_members = _component_members(session, address), or [address].
Component(r) ==
  /\ pc[r] = "component"
  /\ LET found == ComponentMembers(address[r])
     IN  cluster_members' = [cluster_members EXCEPT ![r] =
                               IF found = {} THEN {address[r]} ELSE found]
  /\ pc' = [pc EXCEPT ![r] = "assign"]
  /\ UNCHANGED apiVars
  /\ UNCHANGED <<budget, storeVars, scoreVars, last, first_id, batch_size, pending,
                 address, assigned_total, response, at_start, calls, before_batch>>

\* cluster_id = str(uuid4()); _assign_cluster(...); assigned_total += len(...);
\* then the next address of the batch, or the next fetch.
Assign(r) ==
  /\ pc[r] = "assign"
  /\ cluster_id' = AssignCluster(cluster_members[r], Uuid4(r, address[r]))
  /\ first_id' = FirstIdAfter(cluster_id')
  /\ assigned_total' = [assigned_total EXCEPT
                          ![r] = @ + Cardinality(cluster_members[r])]
  /\ cluster_members' = [cluster_members EXCEPT ![r] = {}]
  /\ IF pending[r] = {}
     THEN /\ pc' = [pc EXCEPT ![r] = "fetch"]
          /\ address' = [address EXCEPT ![r] = 1]
          /\ UNCHANGED pending
     ELSE \E next \in pending[r] :
          /\ pc' = [pc EXCEPT ![r] = "component"]
          /\ address' = [address EXCEPT ![r] = next]
          /\ pending' = [pending EXCEPT ![r] = @ \ {next}]
  /\ UNCHANGED apiVars
  /\ UNCHANGED <<budget, nodes, edges, rels, risk_score, is_sanctioned, alert_severity,
                 scoreVars, last, batch_size, response, at_start, calls,
                 before_batch>>

\* A faulty variant: the request is one transaction, undone when it fails.
FailRollsBack(r) ==
  /\ pc[r] \in {"fetch", "component", "assign"}
  /\ pc' = [pc EXCEPT ![r] = "failed"]
  /\ response' = [response EXCEPT ![r] = FailedResponse]
  /\ pending' = [pending EXCEPT ![r] = {}]
  /\ address' = [address EXCEPT ![r] = 1]
  /\ cluster_members' = [cluster_members EXCEPT ![r] = {}]
  /\ cluster_id' = at_start[r]
  /\ UNCHANGED apiVars
  /\ UNCHANGED <<budget, nodes, edges, rels, risk_score, is_sanctioned,
                 alert_severity, scoreVars, last, first_id, batch_size,
                 assigned_total, at_start, calls, before_batch>>

\* A query raises Neo4jError: RuntimeError, answered 502.  Queries already
\* run were committed one by one; nothing is undone.  The locals die with
\* the call.
Fail(r) ==
  /\ pc[r] \in {"fetch", "component", "assign"}
  /\ pc' = [pc EXCEPT ![r] = "failed"]
  /\ response' = [response EXCEPT ![r] = FailedResponse]
  /\ pending' = [pending EXCEPT ![r] = {}]
  /\ address' = [address EXCEPT ![r] = 1]
  /\ cluster_members' = [cluster_members EXCEPT ![r] = {}]
  /\ UNCHANGED apiVars
  /\ UNCHANGED <<budget, storeVars, scoreVars, last, first_id, batch_size,
                 assigned_total, at_start, calls, before_batch>>

(***************************************************************************)
(* Ingestion: ingest/etherscan_ingest.py and ingest/sample_loader.py run   *)
(* the same MERGE query over the transactions they were given.             *)
(***************************************************************************)
\* What the chain records as the value of a transaction; both providers
\* report it as it is.
ValueWei(tx) == 10 * tx.hash

\* A faulty variant: CREATE (sender)-[rel:SENT {hash: tx.hash}]->(receiver).
CreateSent(transactions) ==
  [e \in edges \cup transactions |->
     IF e \in transactions
     THEN [count |-> IF e \in edges THEN rels[e].count + 1 ELSE 1,
           value_wei |-> ValueWei(e)]
     ELSE rels[e]]

\* MERGE (sender)-[rel:SENT {hash: tx.hash}]->(receiver) SET rel.value_wei =
\* tx.value_wei, ...: a relationship of that sender, receiver and hash is
\* matched if there is one and created if not, and its attributes are set.
MergeSent(transactions) ==
  [e \in edges \cup transactions |->
     IF e \in transactions
     THEN [count |-> IF e \in edges THEN rels[e].count ELSE 1,
           value_wei |-> ValueWei(e)]
     ELSE rels[e]]

\* MERGE (sender), MERGE (receiver), MERGE (sender)-[:SENT {hash}]->(receiver):
\* what exists is matched, what is missing is created with no other property.
Ingest(transactions) ==
  /\ Receive
  /\ nodes' = nodes \cup {tx.from : tx \in transactions}
                    \cup {tx.to : tx \in transactions}
  /\ edges' = edges \cup transactions
  /\ rels' = MergeSent(transactions)
  /\ UNCHANGED apiVars
  /\ UNCHANGED <<cluster_id, risk_score, is_sanctioned, alert_severity,
                 runVars, scoreVars, last, first_id>>

(***************************************************************************)
(* Scoring: ml/anomaly.py.  The isolation forest is a collaborator: any    *)
(* risk score in [0, 1] may come out of it for any address.                *)
(***************************************************************************)
\* rows = _fetch_feature_rows(): one row per address; no rows, no write.
ScoreFetch ==
  /\ Receive
  /\ score_pc = "idle"
  /\ nodes # {}
  /\ score_pc' = "write"
  /\ score_rows' = nodes
  /\ UNCHANGED apiVars
  /\ UNCHANGED <<storeVars, runVars, last, first_id>>

\* _write_scores: MATCH (a:Address {address: row.address})
\* SET a.risk_score = row.risk_score, ... (is_anomaly, tx_rate,
\* unique_counterparties, analyzed_at: no operation of the model reads them).
WriteScores(results) ==
  [a \in Keys |->
     IF a \in DOMAIN results /\ a \in nodes THEN results[a] ELSE risk_score[a]]

ScoreWrite(results) ==
  /\ score_pc = "write"
  /\ DOMAIN results = score_rows
  /\ risk_score' = WriteScores(results)
  /\ score_pc' = "idle"
  /\ score_rows' = {}
  /\ UNCHANGED apiVars
  /\ UNCHANGED <<budget, nodes, edges, rels, cluster_id, is_sanctioned, alert_severity,
                 runVars, last, first_id>>

(***************************************************************************)
(* Compliance: utils/compliance.py                                         *)
(***************************************************************************)
\* _normalize_addresses: empty entries and entries normalize_eth_address
\* rejects are skipped, the others normalized, in order.
RECURSIVE NormalizeAddresses(_)
NormalizeAddresses(addresses) ==
  IF addresses = <<>> THEN <<>>
  ELSE LET raw == Head(addresses)
           rest == NormalizeAddresses(Tail(addresses))
       IN  IF raw = <<>> THEN rest
           ELSE IF IsValidEthAddress(raw)
                THEN <<normalize_eth_address(raw)>> \o rest
                ELSE rest

\* MATCH (a:Address {address: address})
MatchAddress(text) == {a \in nodes : KeyText(a) = text}

\* UNWIND $batch AS address MATCH ... RETURN count(a): one row per entry of
\* the batch and node it matches.
RECURSIVE CountMatches(_)
CountMatches(batch) ==
  IF batch = <<>> THEN 0
  ELSE Cardinality(MatchAddress(Head(batch))) + CountMatches(Tail(batch))

MatchedBy(batch) == UNION {MatchAddress(batch[i]) : i \in 1..Len(batch)}

\* for i in range(0, len(normalized), BATCH_SIZE): the batches.
Batches(normalized) ==
  [k \in 1..((Len(normalized) + BATCH_SIZE - 1) \div BATCH_SIZE) |->
     SubSeq(normalized, (k - 1) * BATCH_SIZE + 1,
            Min(k * BATCH_SIZE, Len(normalized)))]

RECURSIVE SumCounts(_, _)
SumCounts(batches, k) ==
  IF k > Len(batches) THEN 0
  ELSE CountMatches(batches[k]) + SumCounts(batches, k + 1)

\* A faulty variant: the blacklist replaces the sanctioned set.
SanctionedAfterReplace(matched) == [a \in Keys |-> a \in matched]

\* SET a.is_sanctioned = true on the matched nodes.
SanctionedAfter(matched) ==
  [a \in Keys |-> IF a \in matched THEN TRUE ELSE is_sanctioned[a]]

\* mark_sanctioned_addresses.  A blacklist of the model fits one batch, so
\* the call is one query.
MarkSanctioned(addresses) ==
  \E normalized \in {NormalizeAddresses(addresses)} :
    \E batches \in {Batches(normalized)} :
      \E matched \in {UNION {MatchedBy(batches[k]) : k \in 1..Len(batches)}} :
        /\ Receive
        /\ Len(normalized) <= BATCH_SIZE
        /\ is_sanctioned' = SanctionedAfter(matched)
        /\ alert_severity' =
             [a \in Keys |-> IF a \in matched THEN "HIGH" ELSE alert_severity[a]]
        /\ last' = [op |-> "mark", ret |-> SumCounts(batches, 1)]
        /\ UNCHANGED apiVars
        /\ UNCHANGED <<nodes, edges, rels, cluster_id, risk_score, runVars, scoreVars,
                       first_id>>

\* coalesce(a.risk_score, 0.0)
Coalesce(value, default) == IF value = NULL THEN default ELSE value

\* A faulty variant: the thresholds are exclusive.
SeverityCaseExclusive(sanctioned, score) ==
  IF sanctioned THEN "HIGH"
  ELSE IF Coalesce(score, 0) > HIGH_RISK THEN "HIGH"
  ELSE IF Coalesce(score, 0) > MEDIUM_RISK THEN "MEDIUM"
  ELSE IF Coalesce(score, 0) > ELEVATED_RISK THEN "ELEVATED"
  ELSE "LOW"

\* A faulty variant: the CASE without its first branch.
SeverityCaseByScore(sanctioned, score) ==
  IF Coalesce(score, 0) >= HIGH_RISK THEN "HIGH"
  ELSE IF Coalesce(score, 0) >= MEDIUM_RISK THEN "MEDIUM"
  ELSE IF Coalesce(score, 0) >= ELEVATED_RISK THEN "ELEVATED"
  ELSE "LOW"

\* The CASE of evaluate_alert_severity, in its order.
SeverityCase(sanctioned, score) ==
  IF sanctioned THEN "HIGH"
  ELSE IF Coalesce(score, 0) >= HIGH_RISK THEN "HIGH"
  ELSE IF Coalesce(score, 0) >= MEDIUM_RISK THEN "MEDIUM"
  ELSE IF Coalesce(score, 0) >= ELEVATED_RISK THEN "ELEVATED"
  ELSE "LOW"

\* evaluate_alert_severity: one query over every address; count(a) comes back.
EvaluateSeverity ==
  /\ Receive
  /\ alert_severity' =
       [a \in Keys |->
          IF a \in nodes THEN SeverityCase(is_sanctioned[a], risk_score[a])
          ELSE alert_severity[a]]
  /\ last' = [op |-> "evaluate", ret |-> Cardinality(nodes)]
  /\ UNCHANGED apiVars
  /\ UNCHANGED <<nodes, edges, rels, cluster_id, risk_score, is_sanctioned, runVars,
                 scoreVars, first_id>>

(***************************************************************************)
(* Specification of the clustering engine alone: one request at a time on  *)
(* a store whose content is an input (the store is an external database).  *)
(***************************************************************************)
BatchInputs == {0, 1, 2, 600}

\* The transfer between neighbours i and i+1 of the chain, its direction
\* alternating along the chain.
ChainTx(i) ==
  IF i % 2 = 1 THEN [from |-> i, to |-> i + 1, hash |-> i]
  ELSE [from |-> i + 1, to |-> i, hash |-> i]

Chain(k) == {ChainTx(i) : i \in 1..(k - 1)}

\* The transactions a store of addresses 1..k may hold: the chain, and one
\* from k back to 1 (a self-transfer for k = 1, a transfer back for k = 2, the
\* edge closing a cycle beyond).
StorePool(k) == Chain(k) \cup {[from |-> k, to |-> 1, hash |-> k]}

RunInit ==
  /\ pc = [r \in Runs |-> "idle"]
  /\ batch_size = [r \in Runs |-> BATCH_SIZE]
  /\ pending = [r \in Runs |-> {}]
  /\ address = [r \in Runs |-> 1]
  /\ cluster_members = [r \in Runs |-> {}]
  /\ assigned_total = [r \in Runs |-> 0]
  /\ response = [r \in Runs |-> NoResponse]
  /\ calls = [r \in Runs |-> 0]
  /\ at_start = [r \in Runs |-> [a \in Keys |-> NULL]]
  /\ before_batch = [r \in Runs |-> NULL]

PropsInit ==
  /\ cluster_id = [a \in Keys |-> NULL]
  /\ first_id = [a \in Keys |-> NULL]
  /\ risk_score = [a \in Keys |-> NULL]
  /\ is_sanctioned = [a \in Keys |-> FALSE]
  /\ alert_severity = [a \in Keys |-> NULL_STR]

ScoreInit ==
  /\ score_pc = "idle"
  /\ score_rows = {}
  /\ last = [op |-> "none", ret |-> 0]

\* No request answered yet, _DRIVER = None, no thread in get_driver.
ApiInit ==
  /\ request = [op |-> "none"]
  /\ reply = [op |-> "none", status |-> 0, cause |-> "none"]
  /\ driver = NULL
  /\ built = 0
  /\ live = {}
  /\ tpc = [t \in Threads |-> "idle"]
  /\ held = [t \in Threads |-> NULL]

\* The relationships of a store that ingestion filled.
RelsInit == rels = [e \in edges |-> [count |-> 1, value_wei |-> ValueWei(e)]]

InitCluster ==
  /\ \E k \in Addr :
       /\ nodes = 1..k
       /\ edges \in IF k <= SmallStore THEN SUBSET StorePool(k) ELSE {Chain(k)}
  /\ RelsInit
  /\ PropsInit
  /\ RunInit
  /\ ScoreInit
  /\ ApiInit
  /\ budget = MaxCalls

NextCluster ==
  \/ \E b \in BatchInputs : Start(1, b)
  \/ Fetch(1)
  \/ Component(1)
  \/ Assign(1)
  \/ Fail(1)

SpecCluster == InitCluster /\ [][NextCluster]_vars

\* The request thread runs on: a query returns or raises.
SpecClusterFair ==
  /\ InitCluster
  /\ [][NextCluster]_vars
  /\ WF_vars(Fetch(1))
  /\ WF_vars(Component(1))
  /\ WF_vars(Assign(1))

(***************************************************************************)
(* Properties of the clustering engine                                     *)
(***************************************************************************)
\* The undirected component of a: everything within as many hops as there
\* are addresses.
TrueComponent(a) == Within(a, NumAddr)

\* Every component fits into the depth window of any of its members.
DiameterWithinDepth ==
  \A a \in nodes : TrueComponent(a) \subseteq Within(a, MAX_CLUSTER_DEPTH)

Isolated(a) == \A e \in edges : e.from # a /\ e.to # a

FreshStoreAtStart(r) == \A a \in nodes : at_start[r][a] = NULL

\* The addresses whose cluster_id went from null to non-null since request r
\* began.
NewlyClustered(r) == {a \in nodes : at_start[r][a] = NULL /\ cluster_id[a] # NULL}

\* C2: a request that finds every address already clustered answers an
\* assigned count of 0 and leaves every cluster_id as it found it.
C2_NothingLeftToAssign ==
  \A r \in Runs :
    (pc[r] = "done" /\ \A a \in nodes : at_start[r][a] # NULL)
      => (response[r] = OkResponse(0) /\ cluster_id = at_start[r])

C2_Witness ==
  /\ pc[1] = "done"
  /\ calls[1] = 2
  /\ Cardinality(nodes) >= 3
  /\ \A a \in nodes : at_start[1][a] # NULL

\* C3 as stated: after one completed request on a store that began with no
\* cluster_id, the two ends of every SENT edge carry the same cluster_id.
C3_Original ==
  \A r \in Runs :
    (pc[r] = "done" /\ FreshStoreAtStart(r))
      => \A e \in edges : cluster_id[e.from] = cluster_id[e.to]

\* C3 amended: the same, for graphs whose components all have undirected
\* diameter at most MAX_CLUSTER_DEPTH.
C3_EdgeEndsShareCluster ==
  \A r \in Runs :
    (pc[r] = "done" /\ FreshStoreAtStart(r) /\ DiameterWithinDepth)
      => \A e \in edges :
           cluster_id[e.from] # NULL /\ cluster_id[e.from] = cluster_id[e.to]

C3_Witness ==
  /\ pc[1] = "done"
  /\ FreshStoreAtStart(1)
  /\ DiameterWithinDepth
  /\ \E a \in nodes : Cardinality(TrueComponent(a)) = MAX_CLUSTER_DEPTH + 1
  /\ \A e \in edges : cluster_id[e.from] = cluster_id[e.to]

\* C4: the count a completed request answers is the number of addresses
\* whose cluster_id went from null to non-null during the request.
C4_CountIsNewlyClustered ==
  \A r \in Runs :
    pc[r] = "done"
      => response[r].assigned_addresses = Cardinality(NewlyClustered(r))

\* With nothing else touching the store, every fetched batch leaves fewer
\* unclustered addresses than it found, the request returns only with no
\* address unclustered, and the batch size is within [1, 500].
C5_BatchShrinks ==
  \A r \in Runs :
    /\ batch_size[r] \in 1..MAX_BATCH
    /\ (pc[r] = "fetch" /\ before_batch[r] # NULL)
         => Cardinality(Unclustered) < before_batch[r]
    /\ pc[r] = "done" => Unclustered = {}

\* C5: all of that in every state, and every request that entered the loop
\* ends, done or failed.
C5_Terminates ==
  /\ []C5_BatchShrinks
  /\ (pc[1] = "fetch") ~> (pc[1] \in {"done", "failed"})

C5_Witness ==
  /\ pc[1] = "done"
  /\ batch_size[1] = 1
  /\ Cardinality(nodes) = NumAddr
  /\ before_batch[1] = 1

\* C6: after a completed request, an address without SENT edges has a
\* cluster_id, and no other address has the same one.
C6_IsolatedIsSingleton ==
  \A r \in Runs :
    pc[r] = "done"
      => \A a \in nodes :
           Isolated(a)
             => /\ cluster_id[a] # NULL
                /\ \A b \in nodes \ {a} : cluster_id[b] # cluster_id[a]

C6_Witness ==
  /\ pc[1] = "done"
  /\ \E a \in nodes : Isolated(a)
  /\ \E a, b \in nodes : a # b /\ Adjacent(a, b)

\* C7: a request that failed answered the clustering failure and no count;
\* whatever cluster_id was ever written is still there with its value, also
\* through the failure and the requests after it; and a later request leaves
\* alone every address that was clustered when it began.
C7_FailureKeepsProgress ==
  /\ \A a \in Addr : first_id[a] # NULL => cluster_id[a] = first_id[a]
  /\ \A r \in Runs :
       /\ pc[r] = "failed"
            => (response[r] = FailedResponse
                /\ "assigned_addresses" \notin DOMAIN response[r])
       /\ \A a \in Addr : at_start[r][a] # NULL => cluster_id[a] = at_start[r][a]

\* The first request failed with part of the store clustered, and a second
\* request clustered the rest.
C7_Witness ==
  /\ pc[1] = "done"
  /\ calls[1] = 2
  /\ \E a \in nodes : at_start[1][a] # NULL
  /\ \E a \in nodes : at_start[1][a] = NULL /\ cluster_id[a] # NULL
  /\ response[1].assigned_addresses > 0

(***************************************************************************)
(* The whole service: an empty store, and requests of every kind arriving  *)
(* in any order, two clustering requests at a time.                        *)
(***************************************************************************)
\* The transactions the providers hold: 1 -> 2, 3 -> 2, ...
TxPool == {ChainTx(i) : i \in 1..PoolSize}

PoolAddrs == 1..(PoolSize + 1)

\* The store after the transactions txs were ingested and nothing else ran.
Ingested(txs) ==
  /\ nodes = {tx.from : tx \in txs} \cup {tx.to : tx \in txs}
  /\ edges = txs
  /\ RelsInit
  /\ PropsInit
  /\ RunInit
  /\ ScoreInit
  /\ ApiInit

Init == Ingested({}) /\ budget = MaxRequests

CoarseScores == {10, 96}

CanonLists == {<<AddrText(a)>> : a \in PoolAddrs}

Next ==
  \/ \E txs \in SUBSET TxPool : txs # {} /\ Ingest(txs)
  \/ \E r \in Runs, b \in {0, 1} : Start(r, b)
  \/ \E r \in Runs : Fetch(r)
  \/ \E r \in Runs : Component(r)
  \/ \E r \in Runs : Assign(r)
  \/ \E r \in Runs : Fail(r)
  \/ ScoreFetch
  \/ \E results \in [score_rows -> CoarseScores] : ScoreWrite(results)
  \/ \E addresses \in CanonLists : MarkSanctioned(addresses)
  \/ EvaluateSeverity

Spec == Init /\ [][Next]_vars

(***************************************************************************)
(* The severity pipeline alone, with risk scores around every threshold.   *)
(***************************************************************************)
BoundaryScores == {0, 49, 50, 74, 75, 94, 95, 100}

SeverityAddrs == {1, 2}

NextSeverity ==
  \/ Ingest({ChainTx(1)})
  \/ ScoreFetch
  \/ \E results \in [score_rows -> BoundaryScores] : ScoreWrite(results)
  \/ \E a \in SeverityAddrs : MarkSanctioned(<<AddrText(a)>>)
  \/ EvaluateSeverity

\* Two addresses in the store to begin with.
InitSeverity == Ingested({ChainTx(1)}) /\ budget = MaxRequests

SpecSeverity == InitSeverity /\ [][NextSeverity]_vars

(***************************************************************************)
(* The blacklist alone, with blacklists of every shape.                    *)
(***************************************************************************)
BlacklistEntries ==
  {AddrText(1), UpperText(1), PaddedText(2), AddrText(3), ShortText(2),
   NonHexText, WordText, <<>>}

RECURSIVE ListsUpTo(_, _)
ListsUpTo(S, n) ==
  IF n = 0 THEN {<<>>}
  ELSE LET shorter == ListsUpTo(S, n - 1)
       IN  shorter \cup {<<x>> \o l : x \in S, l \in shorter}

Blacklists == ListsUpTo(BlacklistEntries, MaxListLen)

NextSanction ==
  \/ \E txs \in SUBSET TxPool : txs # {} /\ Ingest(txs)
  \/ \E addresses \in Blacklists : MarkSanctioned(addresses)
  \/ EvaluateSeverity

\* A store of no address, or of the first few addresses in a chain.
InitSanction ==
  /\ \E k \in 1..SmallStore : Ingested(Chain(k))
  /\ budget = MaxRequests

SpecSanction == InitSanction /\ [][NextSanction]_vars

(***************************************************************************)
(* Properties of the store and of the compliance overlay                   *)
(***************************************************************************)
\* C1: a cluster_id that is set never changes, whatever step is taken.
C1_ClusterIdImmutable ==
  [][\A a \in Addr : cluster_id[a] # NULL => cluster_id'[a] = cluster_id[a]]_vars

\* Two requests at once: one is about to assign its fresh identifier to
\* members of which one has been given the other request's identifier since
\* the first began.
C1_Witness ==
  \E r \in Runs, a \in nodes :
    /\ pc[r] = "assign"
    /\ a \in cluster_members[r]
    /\ at_start[r][a] = NULL
    /\ \E q \in Runs \ {r}, seed \in nodes : cluster_id[a] = Uuid4(q, seed)
    /\ cluster_id[a] # Uuid4(r, address[r])

\* C8: an address that is sanctioned stays sanctioned, whatever step is taken.
C8_SanctionMonotonic ==
  [][\A a \in Addr : is_sanctioned[a] => is_sanctioned'[a]]_vars

\* An address was sanctioned, another was not, and the severities were
\* evaluated since.
C8_Witness ==
  \E a \in nodes :
    /\ is_sanctioned[a]
    /\ alert_severity[a] = "HIGH"
    /\ last.op = "evaluate"
    /\ \E b \in nodes : ~is_sanctioned[b] /\ alert_severity[b] = "LOW"

\* The decision function as the claim words it.
C9_Decision(sanctioned, score) ==
  CASE sanctioned -> "HIGH"
    [] ~sanctioned /\ score = NULL -> "LOW"
    [] ~sanctioned /\ score # NULL /\ score >= 95 -> "HIGH"
    [] ~sanctioned /\ score # NULL /\ score >= 75 /\ score < 95 -> "MEDIUM"
    [] ~sanctioned /\ score # NULL /\ score >= 50 /\ score < 75 -> "ELEVATED"
    [] OTHER -> "LOW"

\* C9: when EvaluateSeverity returns, every address of the store carries the
\* severity the decision function gives for its own is_sanctioned and
\* risk_score, and the call returned the number of addresses.
C9_SeverityIsDecision ==
  [][EvaluateSeverity
       => /\ \A a \in nodes' :
               alert_severity'[a] = C9_Decision(is_sanctioned'[a], risk_score'[a])
          /\ last'.ret = Cardinality(nodes')]_vars

\* After an evaluation: a sanctioned address with a low score is HIGH, an
\* unsanctioned one with a score on a threshold has that threshold's tier.
C9_Witness ==
  /\ last.op = "evaluate"
  /\ last.ret = 2
  /\ \E a \in nodes :
       is_sanctioned[a] /\ risk_score[a] = 49 /\ alert_severity[a] = "HIGH"
  /\ \E a \in nodes :
       ~is_sanctioned[a] /\ risk_score[a] = 75 /\ alert_severity[a] = "MEDIUM"

\* The addresses of the store that a blacklist names in a well-formed spelling.
NamedInStore(addresses) ==
  {a \in nodes : \E i \in 1..Len(addresses) : addresses[i] \in Spellings(a)}

\* C10: MarkSanctioned returns the number of addresses of the store it
\* flagged; it creates no address; and it flags exactly the addresses of the
\* store the blacklist names in a well-formed spelling.
C10_CountsFlaggedAddresses ==
  [][\A addresses \in Blacklists :
       MarkSanctioned(addresses)
         => /\ last'.ret = Cardinality(NamedInStore(addresses))
            /\ nodes' = nodes
            /\ \A a \in Addr :
                 is_sanctioned'[a] <=> (is_sanctioned[a] \/ a \in NamedInStore(addresses))]_vars

\* The blacklist names an address of the store in two of its entries.
NamesTwice(addresses) ==
  \E a \in nodes : \E i, j \in 1..Len(addresses) :
    i # j /\ addresses[i] \in Spellings(a) /\ addresses[j] \in Spellings(a)

\* C11: when a blacklist names an address of the store more than once, in
\* the same or in different letter case, the address adds exactly 1 to the
\* count MarkSanctioned returns.
C11_DuplicatesCountOnce ==
  [][\A addresses \in Blacklists :
       (MarkSanctioned(addresses) /\ NamesTwice(addresses))
         => last'.ret = Cardinality(NamedInStore(addresses))]_vars

(***************************************************************************)
(* Tracing: api/trace.py and models/trace.py                               *)
(***************************************************************************)
MIN_HOPS == 1

MAX_HOPS == 8

\* LIMIT 50 of the trace without a target.
TRACE_LIMIT == 50

\* Directed trails of at most d SENT relationships that leave a and use no
\* relationship of used (a Cypher pattern takes a relationship once).
RECURSIVE TrailsFrom(_, _, _)
TrailsFrom(a, used, d) ==
  IF d = 0 THEN {<<>>}
  ELSE {<<>>} \cup
       UNION {{<<e>> \o rest : rest \in TrailsFrom(e.to, used \cup {e}, d - 1)} :
                e \in {x \in edges \ used : x.from = a}}

\* (source)-[:SENT*1..max_hops]->(neighbor:Address)
OutgoingPaths(source, max_hops) == TrailsFrom(source, {}, max_hops) \ {<<>>}

PathEnd(path) == path[Len(path)].to

\* A faulty variant: any path that ends in target, shortest or not.
ReachingPaths(source, target, max_hops) ==
  {path \in OutgoingPaths(source, max_hops) : PathEnd(path) = target}

\* shortestPath((source)-[:SENT*1..max_hops]->(target)): the paths of least
\* length among those that end in target.
ShortestPaths(source, target, max_hops) ==
  UNION {{path \in reaching : \A other \in reaching : Len(path) <= Len(other)} :
           reaching \in {{path \in OutgoingPaths(source, max_hops) :
                            PathEnd(path) = target}}}

\* _execute_trace: the sets of rows the store may answer with.  With a target
\* it is one shortest path if there is any; without, any TRACE_LIMIT of the
\* outgoing paths.
ExecuteTrace(source, target, max_hops) ==
  IF target # NULL
  THEN IF source \notin nodes \/ target \notin nodes THEN {{}}
       ELSE LET shortest == ShortestPaths(source, target, max_hops)
            IN  IF shortest = {} THEN {{}} ELSE {{path} : path \in shortest}
  ELSE IF source \notin nodes THEN {{}}
       ELSE UNION {IF Cardinality(paths) <= TRACE_LIMIT THEN {paths}
                   ELSE {rows \in SUBSET paths :
                           Cardinality(rows) = TRACE_LIMIT} :
                     paths \in {OutgoingPaths(source, max_hops)}}

\* The nodes of a path: where it starts and where each relationship ends.
PathNodes(path) == {path[1].from} \cup {path[i].to : i \in 1..Len(path)}

\* _paths_to_graph, nodes: one per address over all rows.
GraphNodes(rows) == UNION {PathNodes(path) : path \in rows}

\* _paths_to_graph, edges: the relationships of every row, one after the
\* other (a relationship on two rows is listed twice).  The rows come in the
\* order of the store; the model lists them in one order.
RECURSIVE GraphEdges(_)
GraphEdges(rows) ==
  IF rows = {} THEN <<>>
  ELSE LET path == CHOOSE x \in rows : TRUE
       IN  path \o GraphEdges(rows \ {path})

\* The addresses along a path, in order.
PathNodeSeq(path) == <<path[1].from>> \o [i \in 1..Len(path) |-> path[i].to]

\* The addresses along every row, the rows in the order of GraphEdges.
RECURSIVE NodesAlong(_)
NodesAlong(rows) ==
  IF rows = {} THEN <<>>
  ELSE LET path == CHOOSE x \in rows : TRUE
       IN  PathNodeSeq(path) \o NodesAlong(rows \ {path})

\* What a loop that skips what it has seen keeps of a sequence.
RECURSIVE FirstOccurrences(_, _)
FirstOccurrences(seq, seen) ==
  IF seq = <<>> THEN <<>>
  ELSE IF Head(seq) \in seen THEN FirstOccurrences(Tail(seq), seen)
  ELSE <<Head(seq)>> \o FirstOccurrences(Tail(seq), seen \cup {Head(seq)})

\* TraceNode(address=..., cluster_id=..., risk_score=..., is_sanctioned=...)
TraceNode(a) ==
  [address |-> a, cluster_id |-> cluster_id[a], risk_score |-> risk_score[a],
   is_sanctioned |-> is_sanctioned[a]]

\* _paths_to_graph, nodes as a list: `if address not in nodes`.
NodeList(rows) ==
  LET kept == FirstOccurrences(NodesAlong(rows), {})
  IN  [i \in 1..Len(kept) |-> TraceNode(kept[i])]

\* A faulty variant: a relationship is listed once however many rows hold it.
PathsToGraphDistinct(rows) ==
  [nodes |-> NodeList(rows), edges |-> FirstOccurrences(GraphEdges(rows), {})]

\* _paths_to_graph
PathsToGraph(rows) == [nodes |-> NodeList(rows), edges |-> GraphEdges(rows)]

\* The address a text names, once normalize_eth_address accepted it.
Intern(text) == CHOOSE a \in Addr : AddrText(a) = normalize_eth_address(text)

\* TraceRequest.max_hops: Field(4, ge=1, le=8); a request outside is answered
\* 422 by the framework and trace_route never runs.
AcceptsHops(hops) == hops >= MIN_HOPS /\ hops <= MAX_HOPS

\* _normalize_request: max(1, min(8, payload.max_hops))
ClampHops(hops) == Max(MIN_HOPS, Min(MAX_HOPS, hops))

Rejected(op) == [op |-> op, status |-> 422, cause |-> "validation"]

\* An exception no handler catches: the framework answers 500.
Unhandled(op, cause) == [op |-> op, status |-> 500, cause |-> cause]

\* HTTPException(status_code=502, ...)
BadGateway(op, cause) == [op |-> op, status |-> 502, cause |-> cause]

\* HTTPException(status_code=404, ...)
NotFound(op, cause) == [op |-> op, status |-> 404, cause |-> cause]

\* HTTPException(status_code=400, ...)
BadRequest(op, cause) == [op |-> op, status |-> 400, cause |-> cause]

\* A faulty variant: a trace with no node is answered with an empty graph.
TraceAnswerAlways(source, target, max_hops, rows) ==
  [op |-> "trace", status |-> 200, cause |-> "none", rows |-> rows,
   nodes |-> GraphNodes(rows), node_list |-> PathsToGraph(rows).nodes,
   edges |-> PathsToGraph(rows).edges,
   metadata |-> [source |-> source, target |-> target, max_hops |-> max_hops,
                 path_count |-> Cardinality(rows),
                 edge_count |-> Len(PathsToGraph(rows).edges),
                 node_count |-> Len(PathsToGraph(rows).nodes)]]

\* trace_route from _paths_to_graph on: 404 if there is no node, else the
\* graph and its metadata.
TraceAnswer(source, target, max_hops, rows) ==
  IF GraphNodes(rows) = {}
  THEN [op |-> "trace", status |-> 404, cause |-> "none", rows |-> rows]
  ELSE [op |-> "trace", status |-> 200, cause |-> "none", rows |-> rows,
        nodes |-> GraphNodes(rows), node_list |-> PathsToGraph(rows).nodes,
        edges |-> PathsToGraph(rows).edges,
        metadata |-> [source |-> source, target |-> target,
                      max_hops |-> max_hops,
                      path_count |-> Cardinality(rows),
                      edge_count |-> Len(PathsToGraph(rows).edges),
                      node_count |-> Len(PathsToGraph(rows).nodes)]]

\* get_driver() may raise while there is no driver yet: the ValueError of
\* _build_driver or a Neo4jError.  Where no handler catches it the framework
\* answers 500.
DriverFaults(op) == IF driver = NULL THEN {Unhandled(op, "driver")} ELSE {}

\* Everything trace_route may answer to a request.  source and target are
\* texts, target <<>> when absent.  shortestPath between a node and itself
\* is an error of the store.
TraceReplies(source, target, hops) ==
  IF ~AcceptsHops(hops) THEN {Rejected("trace")}
  ELSE IF ~IsValidEthAddress(source) THEN {Unhandled("trace", "address")}
  ELSE IF target # <<>> /\ ~IsValidEthAddress(target)
       THEN {Unhandled("trace", "address")}
  ELSE LET src == Intern(source)
           tgt == IF target # <<>> THEN Intern(target) ELSE NULL
           max_hops == ClampHops(hops)
       IN  DriverFaults("trace")
             \cup {BadGateway("trace", "store")}
             \cup IF tgt = src /\ src \in nodes THEN {}
                  ELSE {TraceAnswer(src, tgt, max_hops, rows) :
                          rows \in ExecuteTrace(src, tgt, max_hops)}

\* get_driver() as one step of a handler that ran up to it: the driver is
\* built if there was none.
UseDriver(got_there) ==
  /\ IF got_there /\ driver = NULL
     THEN /\ driver' = built + 1
          /\ built' = built + 1
          /\ live' = live \cup {built + 1}
     ELSE UNCHANGED <<driver, built, live>>
  /\ UNCHANGED <<tpc, held>>

\* POST /trace
Trace(source, target, hops) ==
  /\ Receive
  /\ request' = [op |-> "trace", source |-> source, target |-> target,
                 max_hops |-> hops]
  /\ reply' \in TraceReplies(source, target, hops)
  /\ UseDriver(reply'.cause \in {"store", "none"})
  /\ UNCHANGED <<storeVars, runVars, scoreVars, last, first_id>>

(***************************************************************************)
(* Address profile: api/address.py and utils/clustering.py              *)
(***************************************************************************)
\* The profile row of fetch_address_profile.
Profile(a) ==
  LET out == {e \in edges : e.from = a}
      inc == {e \in edges : e.to = a}
  IN  [address |-> a, cluster_id |-> cluster_id[a],
       risk_score |-> risk_score[a], is_sanctioned |-> is_sanctioned[a],
       out_count |-> Cardinality(out), in_count |-> Cardinality(inc),
       unique_counterparties |->
         Cardinality({e.to : e \in out} \cup {e.from : e \in inc})]

\* Everything get_address may answer.  It turns every ValueError into 404:
\* the one normalize_eth_address raises, the one get_driver lets through
\* and "Address not found".  A Neo4jError of get_driver is not caught.
ProfileReplies(text) ==
  IF ~IsValidEthAddress(text) THEN {NotFound("profile", "address")}
  ELSE DriverFaults("profile")
         \cup {NotFound("profile", "driver") : x \in DriverFaults("profile")}
         \cup {BadGateway("profile", "store")}
         \cup IF Intern(text) \in nodes
              THEN {[op |-> "profile", status |-> 200, cause |-> "none",
                     profile |-> Profile(Intern(text))]}
              ELSE {NotFound("profile", "none")}

\* GET /address/{address}
GetAddress(text) ==
  /\ Receive
  /\ request' = [op |-> "profile", address |-> text]
  /\ reply' \in ProfileReplies(text)
  /\ UseDriver(reply'.cause \notin {"address", "driver"})
  /\ UNCHANGED <<storeVars, runVars, scoreVars, last, first_id>>

(***************************************************************************)
(* The ingestion endpoint: main.py and ingest/etherscan_ingest.py          *)
(***************************************************************************)
\* Everything ingest_transactions may answer when the provider holds the
\* given transactions.  It turns every ValueError into 400 (a malformed
\* address, no driver configuration, no provider key) and every RuntimeError
\* into 502.
IngestReplies(text, transactions) ==
  IF ~IsValidEthAddress(text) THEN {BadRequest("ingest", "address")}
  ELSE DriverFaults("ingest")
         \cup {BadRequest("ingest", "driver") : x \in DriverFaults("ingest")}
         \cup {BadRequest("ingest", "config"), BadGateway("ingest", "provider"),
                BadGateway("ingest", "store")}
         \cup {[op |-> "ingest", status |-> 200, cause |-> "none",
                 fetched_count |-> Cardinality(transactions),
                 ingested_count |-> Cardinality(transactions)]}

\* GET /ingest/{address}: the transactions are persisted as Ingest does.
IngestAddress(text, transactions) ==
  /\ Receive
  /\ request' = [op |-> "ingest", address |-> text]
  /\ reply' \in IngestReplies(text, transactions)
  /\ IF reply'.status = 200
     THEN /\ nodes' = nodes \cup {tx.from : tx \in transactions}
                            \cup {tx.to : tx \in transactions}
          /\ edges' = edges \cup transactions
          /\ rels' = MergeSent(transactions)
          /\ last' = [op |-> "ingest", ret |-> reply'.ingested_count]
     ELSE UNCHANGED <<nodes, edges, rels, last>>
  /\ UseDriver(reply'.cause \notin {"address", "driver"})
  /\ UNCHANGED <<cluster_id, risk_score, is_sanctioned, alert_severity,
                 runVars, scoreVars, first_id>>

(***************************************************************************)
(* The read endpoints and the ingestion endpoint over directed stores.      *)
(***************************************************************************)
LineTx(i) == [from |-> i, to |-> i + 1, hash |-> i]

\* A directed line over the first addresses, an edge closing it to a cycle,
\* a second transaction from 1 to 2 and a shortcut from 1 to 3.
TracePool ==
  {LineTx(i) : i \in 1..(SmallStore - 1)}
    \cup {[from |-> SmallStore, to |-> 1, hash |-> SmallStore],
           [from |-> 1, to |-> 2, hash |-> SmallStore + 1],
           [from |-> 1, to |-> 3, hash |-> SmallStore + 2]}

TraceSources == {AddrText(1), UpperText(1), AddrText(2), WordText}

TraceTargets == {<<>>, AddrText(1), PaddedText(3), ShortText(2)}

TraceHops == {0, 1, 2, MAX_HOPS, MAX_HOPS + 1}

ProfileTexts == {AddrText(1), UpperText(3), ShortText(2), NonHexText}

\* What the provider may hold for an address: transactions that name it.
ProviderHolds(text) ==
  IF IsValidEthAddress(text)
  THEN LET naming == {tx \in TracePool : Intern(text) \in {tx.from, tx.to}}
       IN  {{}, naming} \cup {{tx} : tx \in naming}
  ELSE {{}}

\* The store holds the first few transactions of the pool.
InitApi ==
  /\ \E k \in 0..Cardinality(TracePool) :
       Ingested({tx \in TracePool : tx.hash <= k})
  /\ budget = MaxCalls

NextApi ==
  \/ \E source \in TraceSources, target \in TraceTargets, hops \in TraceHops :
       Trace(source, target, hops)
  \/ \E text \in ProfileTexts : GetAddress(text)
  \/ \E text \in ProfileTexts :
       \E transactions \in ProviderHolds(text) :
         IngestAddress(text, transactions)

SpecApi == InitApi /\ [][NextApi]_vars

(***************************************************************************)
(* Properties of the trace endpoint                                        *)
(***************************************************************************)
\* C12: a trace request whose maxHops lies outside 1..8 is answered as the
\* same request with maxHops clamped into 1..8 is.
C12_HopsAreClamped ==
  [][\A source \in TraceSources, target \in TraceTargets, hops \in TraceHops :
       Trace(source, target, hops)
         => reply' \in TraceReplies(source, target, ClampHops(hops))]_vars

\* The addresses one SENT relationship forward of S.
Forward(S) == {e.to : e \in {x \in edges : x.from \in S}}

\* The addresses between one and d relationships forward of S.
RECURSIVE ReachedIn(_, _)
ReachedIn(S, d) ==
  IF d = 0 THEN {} ELSE Forward(S) \cup ReachedIn(Forward(S), d - 1)

\* What the request asks about holds in the store: the target lies within
\* max_hops forward of the source or, without a target, the source has sent.
HasRoute(source, target, max_hops) ==
  /\ Intern(source) \in nodes
  /\ IF target = <<>> THEN Forward({Intern(source)}) # {}
     ELSE Intern(target) \in ReachedIn({Intern(source)}, max_hops)

\* C13: a trace the store answered is NotFound exactly when the merged node
\* set is empty, which is when the store holds no route for the request;
\* otherwise it is a subgraph of the store with at least one node.
C13_NotFoundIffNoNodes ==
  (reply.op = "trace" /\ reply.cause = "none")
    => /\ reply.status \in {200, 404}
       /\ (reply.status = 404) <=> (GraphNodes(reply.rows) = {})
       /\ (reply.status = 404)
            <=> ~HasRoute(request.source, request.target, request.max_hops)
       /\ reply.status = 200
            => /\ reply.nodes # {}
               /\ reply.nodes \subseteq nodes
               /\ \A i \in 1..Len(reply.edges) : reply.edges[i] \in edges

\* A trace between two addresses of the store was answered NotFound though
\* the source has sent: the target is out of reach.
C13_Witness ==
  /\ request.op = "trace"
  /\ reply.status = 404
  /\ reply.cause = "none"
  /\ request.target # <<>>
  /\ Intern(request.source) \in nodes
  /\ Intern(request.target) \in nodes
  /\ Forward({Intern(request.source)}) # {}

\* The least number of SENT relationships from source forward to target.
Distance(source, target) ==
  CHOOSE d \in 1..MAX_HOPS :
    /\ target \in ReachedIn({source}, d)
    /\ \A c \in 1..(d - 1) : target \notin ReachedIn({source}, c)

\* C14: the metadata of a trace that succeeds counts the returned lists, and
\* a targeted one returns one path: the shortest, within max_hops, with one
\* node more than it has edges.
C14_TargetedIsOneShortestPath ==
  (reply.op = "trace" /\ reply.status = 200)
    => /\ reply.metadata.edge_count = Len(reply.edges)
       /\ reply.metadata.node_count = Cardinality(reply.nodes)
       /\ request.target # <<>>
            => /\ reply.metadata.path_count = 1
               /\ reply.metadata.edge_count =
                    Distance(Intern(request.source), Intern(request.target))
               /\ reply.metadata.edge_count <= request.max_hops
               /\ reply.metadata.node_count = reply.metadata.edge_count + 1

\* A targeted trace returned a path of two relationships.
C14_Witness ==
  /\ request.op = "trace"
  /\ reply.status = 200
  /\ request.target # <<>>
  /\ reply.metadata.path_count = 1
  /\ reply.metadata.edge_count = 2
  /\ reply.metadata.node_count = 3

(***************************************************************************)
(* Properties of the error mapping                                         *)
(***************************************************************************)
\* The request names an address that is not well formed (and passed the
\* validation of the framework).
Malformed ==
  \/ /\ request.op = "trace"
     /\ AcceptsHops(request.max_hops)
     /\ \/ ~IsValidEthAddress(request.source)
        \/ request.target # <<>> /\ ~IsValidEthAddress(request.target)
  \/ /\ request.op \in {"profile", "ingest"}
     /\ ~IsValidEthAddress(request.address)

\* C15: a trace, a profile request or an ingestion that names a malformed
\* address is answered InvalidAddress, the client's bad request (400).
C15_MalformedIsBadRequest == Malformed => reply.status = 400

\* C16: a failure of the graph store during a trace or a profile request, be
\* it a failed query or a driver that cannot be initialised, is answered
\* StoreError (502).
C16_StoreFailureIsStoreError ==
  (reply.op \in {"trace", "profile"} /\ reply.cause \in {"driver", "store"})
    => reply.status = 502

(***************************************************************************)
(* Alerts: ml/anomaly.py and api/alerts.py                                 *)
(***************************************************************************)
MIN_LIMIT == 1

MAX_LIMIT == 200

DEFAULT_LIMIT == 25

\* WHERE a.risk_score IS NOT NULL
Scored == {a \in nodes : risk_score[a] # NULL}

\* The alert map the query returns for an address.
AlertOf(a) ==
  [address |-> a, cluster_id |-> cluster_id[a], risk_score |-> risk_score[a],
   is_sanctioned |-> is_sanctioned[a],
   severity |-> IF alert_severity[a] = NULL_STR THEN "LOW"
                ELSE alert_severity[a]]

\* A faulty variant: ORDER BY a.risk_score, ascending.
OutranksAscending(a, b) == risk_score[a] <= risk_score[b]

\* ORDER BY a.risk_score DESC: a may come before b.
Outranks(a, b) == risk_score[a] >= risk_score[b]

\* The orders the store may return the addresses of S in; equal scores come
\* in either order.
RECURSIVE Ranked(_)
Ranked(S) ==
  IF S = {} THEN {<<>>}
  ELSE UNION {{<<a>> \o rest : rest \in Ranked(S \ {a})} :
                a \in {x \in S : \A y \in S : Outranks(x, y)}}

\* fetch_alerts where it returns: the first limit rows.
FetchAlerts(limit) ==
  {[i \in 1..Min(limit, Len(order)) |-> AlertOf(order[i])] :
     order \in Ranked(Scored)}

\* AlertResponse(alerts=alerts): total is left at its default.
AlertResponse(alerts) == [alerts |-> alerts, total |-> 0]

\* Everything list_alerts may answer.  limit is Query(ge=1, le=200).
AlertsReplies(limit) ==
  IF limit < MIN_LIMIT \/ limit > MAX_LIMIT THEN {Rejected("alerts")}
  ELSE DriverFaults("alerts")
         \cup {BadGateway("alerts", "store")}
         \cup {[op |-> "alerts", status |-> 200, cause |-> "none",
                 body |-> AlertResponse(alerts)] : alerts \in FetchAlerts(limit)}

\* GET /alerts
ListAlerts(limit) ==
  /\ Receive
  /\ request' = [op |-> "alerts", limit |-> limit]
  /\ reply' \in AlertsReplies(limit)
  /\ UseDriver(reply'.cause \in {"store", "none"})
  /\ UNCHANGED <<storeVars, runVars, scoreVars, last, first_id>>

AlertScores == {10, 60, 96}

AlertLimits == {0, 1, 2, DEFAULT_LIMIT, MAX_LIMIT + 1}

\* Two addresses in the store to begin with, a third arrives later.
InitAlerts == Ingested({ChainTx(1)}) /\ budget = MaxRequests

NextAlerts ==
  \/ Ingest({ChainTx(2)})
  \/ ScoreFetch
  \/ \E results \in [score_rows -> AlertScores] : ScoreWrite(results)
  \/ \E a \in SeverityAddrs : MarkSanctioned(<<AddrText(a)>>)
  \/ EvaluateSeverity
  \/ \E limit \in AlertLimits : ListAlerts(limit)

SpecAlerts == InitAlerts /\ [][NextAlerts]_vars

(***************************************************************************)
(* Properties of the alert listing                                         *)
(***************************************************************************)
\* The listing just answered is the top of the scored addresses.
TopScored ==
  LET alerts == reply.body.alerts
      listed == {alerts[i].address : i \in 1..Len(alerts)}
  IN  /\ Len(alerts) <= request.limit
      /\ Cardinality(listed) = Len(alerts)
      /\ \A i \in 1..Len(alerts) :
           /\ alerts[i].address \in nodes
           /\ risk_score[alerts[i].address] # NULL
           /\ alerts[i].risk_score = risk_score[alerts[i].address]
           /\ alert_severity[alerts[i].address] = NULL_STR
                => alerts[i].severity = "LOW"
           /\ \A j \in (i + 1)..Len(alerts) :
                alerts[i].risk_score >= alerts[j].risk_score
           /\ \A a \in Scored \ listed : alerts[i].risk_score >= risk_score[a]

\* C17: a listing returns at most limit alerts, of addresses that have a
\* risk_score, in non-increasing order of it, none of them scored lower than
\* a scored address left out, with severity LOW where none was computed.
C17_AlertsAreTopScored ==
  [][\A limit \in AlertLimits :
       (ListAlerts(limit) /\ reply'.status = 200) => TopScored']_vars

\* A listing of one alert left out a scored address and an address without
\* a score, and reported LOW for want of a severity.
C17_Witness ==
  /\ request.op = "alerts"
  /\ reply.status = 200
  /\ Len(reply.body.alerts) = 1
  /\ Cardinality(Scored) > 1
  /\ nodes \ Scored # {}
  /\ alert_severity[reply.body.alerts[1].address] = NULL_STR
  /\ reply.body.alerts[1].severity = "LOW"
  /\ \E a \in Scored : risk_score[a] < reply.body.alerts[1].risk_score

\* C18: the total of an alert listing is the number of alerts it returns.
C18_TotalCountsAlerts ==
  (reply.op = "alerts" /\ reply.status = 200)
    => reply.body.total = Len(reply.body.alerts)

(***************************************************************************)
(* The driver, statement by statement: db/neo4j_client.py.  Endpoints run  *)
(* on the threads of a pool, so calls of get_driver interleave.            *)
(***************************************************************************)
driverRest == <<storeVars, runVars, scoreVars, first_id, request, reply>>

\* A request thread calls get_driver().
GetDriverCall(t) ==
  /\ Receive
  /\ tpc[t] = "idle"
  /\ tpc' = [tpc EXCEPT ![t] = "check"]
  /\ held' = [held EXCEPT ![t] = NULL]
  /\ UNCHANGED <<driver, built, live, last, driverRest>>

\* if _DRIVER is None:
GetDriverCheck(t) ==
  /\ tpc[t] = "check"
  /\ tpc' = [tpc EXCEPT ![t] = IF driver = NULL THEN "build" ELSE "return"]
  /\ UNCHANGED <<budget, driver, built, live, held, last, driverRest>>

\* _DRIVER = _build_driver()
GetDriverBuild(t) ==
  /\ tpc[t] = "build"
  /\ built' = built + 1
  /\ live' = live \cup {built + 1}
  /\ driver' = built + 1
  /\ tpc' = [tpc EXCEPT ![t] = "return"]
  /\ UNCHANGED <<budget, held, last, driverRest>>

\* _build_driver() raises and get_driver re-raises.
GetDriverRaise(t) ==
  /\ tpc[t] = "build"
  /\ tpc' = [tpc EXCEPT ![t] = "idle"]
  /\ UNCHANGED <<budget, driver, built, live, held, last, driverRest>>

\* return _DRIVER
GetDriverReturn(t) ==
  /\ tpc[t] = "return"
  /\ held' = [held EXCEPT ![t] = driver]
  /\ tpc' = [tpc EXCEPT ![t] = "idle"]
  /\ UNCHANGED <<budget, driver, built, live, last, driverRest>>

\* close_driver(), called by shutdown_event once the requests are through;
\* the references the callers held die with them.
CloseDriver ==
  /\ \A t \in Threads : tpc[t] = "idle"
  /\ driver # NULL
  /\ live' = live \ {driver}
  /\ driver' = NULL
  /\ held' = [t \in Threads |-> NULL]
  /\ last' = [op |-> "close_driver", ret |-> 0]
  /\ UNCHANGED <<budget, built, tpc, driverRest>>

InitDriver == Ingested({}) /\ budget = MaxRequests

NextDriver ==
  \/ \E t \in Threads : GetDriverCall(t)
  \/ \E t \in Threads : GetDriverCheck(t)
  \/ \E t \in Threads : GetDriverBuild(t)
  \/ \E t \in Threads : GetDriverRaise(t)
  \/ \E t \in Threads : GetDriverReturn(t)
  \/ CloseDriver

SpecDriver == InitDriver /\ [][NextDriver]_vars

\* C19: at most one driver is constructed and not yet closed, all callers
\* hold the same instance, and after shutdown no constructed driver is left
\* unclosed.
C19_DriverIsSingleton ==
  /\ Cardinality(live) <= 1
  /\ \A t \in Threads, u \in Threads :
       (held[t] # NULL /\ held[u] # NULL) => held[t] = held[u]
  /\ (last.op = "close_driver" /\ driver = NULL
        /\ \A t \in Threads : tpc[t] = "idle")
       => live = {}

(***************************************************************************)
(* Ingestion by both paths, between the operations that write the          *)
(* properties of addresses.                                                *)
(***************************************************************************)
IngestTexts == {AddrText(1), UpperText(2)}

\* One transaction in the store to begin with.
InitIngest == Ingested({ChainTx(1)}) /\ budget = MaxCalls

NextIngest ==
  \/ \E txs \in SUBSET TxPool : txs # {} /\ Ingest(txs)
  \/ \E text \in IngestTexts :
       \E transactions \in ProviderHolds(text) :
         IngestAddress(text, transactions)
  \/ \E b \in {0, 1} : Start(1, b)
  \/ Fetch(1)
  \/ Component(1)
  \/ Assign(1)
  \/ Fail(1)
  \/ ScoreFetch
  \/ \E results \in [score_rows -> CoarseScores] : ScoreWrite(results)
  \/ \E a \in SeverityAddrs : MarkSanctioned(<<AddrText(a)>>)
  \/ EvaluateSeverity

SpecIngest == InitIngest /\ [][NextIngest]_vars

\* What a step that ingests txs leaves as it was.
Kept(txs) ==
  /\ cluster_id' = cluster_id
  /\ risk_score' = risk_score
  /\ is_sanctioned' = is_sanctioned
  /\ alert_severity' = alert_severity
  /\ \A e \in edges' : rels'[e].count = 1
  /\ txs \subseteq edges => (nodes' = nodes /\ edges' = edges /\ rels' = rels)

\* C20: ingestion by either path leaves cluster_id, risk_score,
\* is_sanctioned and alert_severity of every address as they were and keeps
\* one SENT relationship per sender, receiver and hash; when the
\* transactions are already in the store it leaves the Address nodes, the
\* SENT relationships and their attributes unchanged.
C20_IngestIsIdempotent ==
  [][/\ \A txs \in SUBSET TxPool : (txs # {} /\ Ingest(txs)) => Kept(txs)
     /\ \A text \in IngestTexts :
          request' = [op |-> "ingest", address |-> text]
            => \A txs \in ProviderHolds(text) :
                 IngestAddress(text, txs) => Kept(txs)]_vars

\* The provider path has just ingested every transaction of the store a
\* second time, after an address they name was sanctioned: the store holds
\* each of them once and the address is sanctioned and HIGH as before.
C20_Witness ==
  /\ reply.op = "ingest"
  /\ reply.status = 200
  /\ last.op = "ingest"
  /\ last.ret >= 1
  /\ last.ret = Cardinality(edges)
  /\ is_sanctioned[Intern(request.address)]
  /\ alert_severity[Intern(request.address)] = "HIGH"
  /\ \A e \in edges : rels[e].count = 1

(***************************************************************************)
(* The transaction provider: _fetch_transactions in                        *)
(* ingest/etherscan_ingest.py, from the decoded payload on.                *)
(***************************************************************************)
\* The texts _fetch_transactions looks for in the lowercased result.
NO_TRANSACTIONS ==
  <<"n", "o", " ", "t", "r", "a", "n", "s", "a", "c", "t", "i", "o", "n",
    "s", " ", "f", "o", "u", "n", "d">>

RATE_LIMIT ==
  <<"m", "a", "x", " ", "r", "a", "t", "e", " ", "l", "i", "m", "i", "t",
    " ", "r", "e", "a", "c", "h", "e", "d">>

INVALID_KEY ==
  <<"i", "n", "v", "a", "l", "i", "d", " ", "a", "p", "i", " ", "k", "e",
    "y">>

INVALID_FORMAT ==
  <<"i", "n", "v", "a", "l", "i", "d", " ", "a", "d", "d", "r", "e", "s",
    "s", " ", "f", "o", "r", "m", "a", "t">>

NOT_VALID ==
  <<"n", "o", "t", " ", "a", " ", "v", "a", "l", "i", "d", " ", "a", "d",
    "d", "r", "e", "s", "s">>

\* Texts a provider sends as message or result.
SaysNoTransactions ==
  <<"N", "o", " ", "t", "r", "a", "n", "s", "a", "c", "t", "i", "o", "n",
    "s", " ", "f", "o", "u", "n", "d">>

SaysRateLimit ==
  <<"M", "a", "x", " ", "r", "a", "t", "e", " ", "l", "i", "m", "i", "t",
    " ", "r", "e", "a", "c", "h", "e", "d">>

SaysInvalidAddress ==
  <<"E", "r", "r", "o", "r", "!", " ", "I", "n", "v", "a", "l", "i", "d",
    " ", "a", "d", "d", "r", "e", "s", "s", " ", "f", "o", "r", "m", "a",
    "t">>

SaysInvalidKey ==
  <<"I", "n", "v", "a", "l", "i", "d", " ", "A", "P", "I", " ", "K", "e",
    "y">>

SaysOther ==
  <<"u", "n", "e", "x", "p", "e", "c", "t", "e", "d", " ", "s", "t", "r",
    "i", "n", "g">>

SaysOk ==
  <<"O", "K">>

SaysNotOk ==
  <<"N", "O", "T", "O", "K">>

\* sub in s
Contains(s, sub) ==
  \E i \in 1..(Len(s) - Len(sub) + 1) : SubSeq(s, i, i + Len(sub) - 1) = sub

\* The result of a payload: a text, a list of items or nothing.
TextResult(t) == [kind |-> "text", text |-> t]

ListResult(items) == [kind |-> "list", items |-> items]

NoResult == [kind |-> "none"]

\* _normalize_text: str(value).lower(), "" for None.  The text of a list is
\* its brackets around the items, which hold numbers and hex digits.
NormalizeText(value) ==
  CASE value.kind = "text" -> Lower(value.text)
    [] value.kind = "list" -> <<"[", "]">>
    [] OTHER -> <<>>

Returned(transactions) == [kind |-> "ok", transactions |-> transactions]

Raised(exc, says) == [kind |-> "error", exc |-> exc, says |-> says]

\* The loop over the items: one without recipient is skipped, the others
\* become records with both addresses lowercased.
ParseItems(items) ==
  {[hash |-> item.hash, from_address |-> Lower(item.from),
    to_address |-> Lower(item.to)] : item \in {x \in items : x.to # <<>>}}

\* _fetch_transactions from payload.get("status") on.
FetchTransactions(payload) ==
  LET normalized_result == NormalizeText(payload.result)
  IN  IF payload.status # "1"
      THEN IF Contains(normalized_result, NO_TRANSACTIONS) THEN Returned({})
           ELSE IF Contains(normalized_result, RATE_LIMIT)
                THEN Raised("RuntimeError", "rate limit")
           ELSE IF Contains(normalized_result, INVALID_KEY)
                THEN Raised("RuntimeError", "api key")
           ELSE IF \/ Contains(normalized_result, INVALID_FORMAT)
                   \/ Contains(normalized_result, NOT_VALID)
                THEN Raised("ValueError", "invalid address")
           ELSE Raised("RuntimeError", "api error")
      ELSE IF payload.result.kind = "list"
           THEN Returned(ParseItems(payload.result.items))
           ELSE IF Contains(normalized_result, NO_TRANSACTIONS)
                THEN Returned({})
           ELSE Raised("RuntimeError", "unexpected format")

\* One call of _fetch_transactions on a payload the provider sent.
Fetched(payload) ==
  /\ Receive
  /\ request' = [op |-> "fetch", payload |-> payload]
  /\ reply' = [op |-> "fetch", status |-> 0, cause |-> "none",
               outcome |-> FetchTransactions(payload)]
  /\ UNCHANGED <<driverVars, storeVars, runVars, scoreVars, last, first_id>>

ProviderItems ==
  {[hash |-> 1, from |-> UpperText(1), to |-> AddrText(2)],
   [hash |-> 2, from |-> AddrText(2), to |-> <<>>]}

ProviderResults ==
  {TextResult(t) : t \in {SaysNoTransactions, SaysRateLimit,
                           SaysInvalidAddress, SaysInvalidKey, SaysOther,
                           NO_TRANSACTIONS, <<>>}}
    \cup {ListResult(items) : items \in SUBSET ProviderItems}
    \cup {NoResult}

Payloads ==
  [status : {"0", "1", NULL_STR},
   message : {SaysOk, SaysNotOk, SaysNoTransactions},
   result : ProviderResults]

InitProvider == Ingested({}) /\ budget = MaxCalls

NextProvider == \E payload \in Payloads : Fetched(payload)

SpecProvider == InitProvider /\ [][NextProvider]_vars

\* The payload carries the text in its message or its result.
Says(payload, text) ==
  \/ Contains(Lower(payload.message), text)
  \/ payload.result.kind = "text" /\ Contains(Lower(payload.result.text), text)

\* C21: a response that says no transactions were found yields an empty list
\* and no error, one that says the rate limit was reached a provider error
\* naming the rate limit, one that says the address is invalid a ValueError,
\* a success status with a result that is no list an unexpected-format
\* error, and only a list of items yields transactions.
C21_SentinelsAreClassified ==
  reply.op = "fetch"
    => /\ Says(request.payload, NO_TRANSACTIONS)
            => reply.outcome = Returned({})
       /\ Says(request.payload, RATE_LIMIT)
            => reply.outcome = Raised("RuntimeError", "rate limit")
       /\ (Says(request.payload, INVALID_FORMAT)
             \/ Says(request.payload, NOT_VALID))
            => reply.outcome = Raised("ValueError", "invalid address")
       /\ (request.payload.status = "1"
             /\ request.payload.result.kind # "list")
            => reply.outcome = Raised("RuntimeError", "unexpected format")
       /\ (reply.outcome.kind = "ok" /\ reply.outcome.transactions # {})
            => request.payload.result.kind = "list"

(***************************************************************************)
(* Clustering on a graph that grows between requests; the store does not   *)
(* fail.                                                                   *)
(***************************************************************************)
GrowthPool == {ChainTx(i) : i \in 2..(PoolSize + 1)}

InitGrow == Ingested({ChainTx(1)}) /\ budget = MaxRequests

NextGrow ==
  \/ \E txs \in SUBSET GrowthPool : txs # {} /\ Ingest(txs)
  \/ \E b \in {0, 1} : Start(1, b)
  \/ Fetch(1)
  \/ Component(1)
  \/ Assign(1)

SpecGrow == InitGrow /\ [][NextGrow]_vars

\* C22: after a request that followed a completed one, with nothing
\* ingested since it returned, an address that had no cluster_id when it
\* began (it was ingested after the earlier request) carries the cluster_id
\* of every SENT neighbour that had one then.
C22_NewAddressJoinsNeighbour ==
  (pc[1] = "done" /\ calls[1] >= 2 /\ Unclustered = {})
    => \A e \in edges :
         \A new \in {e.from, e.to}, old \in {e.from, e.to} :
           (at_start[1][new] = NULL /\ at_start[1][old] # NULL)
             => cluster_id[new] = cluster_id[old]

\* C23: every alert of a listing carries the severity the decision order
\* gives for the is_sanctioned and risk_score the address has at that time.
C23_ListedSeverityIsCurrent ==
  [][\A limit \in AlertLimits :
       (ListAlerts(limit) /\ reply'.status = 200)
         => \A i \in 1..Len(reply'.body.alerts) :
              LET alert == reply'.body.alerts[i]
              IN  alert.severity =
                    C9_Decision(is_sanctioned[alert.address],
                                risk_score[alert.address])]_vars

\* The number of SENT relationships over all rows.
RECURSIVE TotalLength(_)
TotalLength(rows) ==
  IF rows = {} THEN 0
  ELSE LET path == CHOOSE x \in rows : TRUE
       IN  Len(path) + TotalLength(rows \ {path})

\* How often x is listed in seq.
Occurrences(seq, x) == Cardinality({i \in 1..Len(seq) : seq[i] = x})

\* C24: the edge list of a trace holds a SENT relationship once for every
\* returned path it lies on, so edge_count is the sum of the paths' lengths;
\* the node list holds every address of the paths once, with the attributes
\* the address has in the store.
C24_EdgesRepeatNodesDoNot ==
  (reply.op = "trace" /\ reply.status = 200)
    => /\ \A e \in edges :
            Occurrences(reply.edges, e) =
              Cardinality({path \in reply.rows : Occurrences(path, e) > 0})
       /\ reply.metadata.edge_count = TotalLength(reply.rows)
       /\ \A a \in GraphNodes(reply.rows) :
            Occurrences(reply.node_list, TraceNode(a)) = 1
       /\ \A i \in 1..Len(reply.node_list) :
            /\ reply.node_list[i].address \in GraphNodes(reply.rows)
            /\ \A j \in 1..Len(reply.node_list) :
                 reply.node_list[i].address = reply.node_list[j].address => i = j

\* A trace returned two paths that share a relationship: it is listed twice
\* and the address both paths start from once.
C24_Witness ==
  /\ reply.op = "trace"
  /\ reply.status = 200
  /\ Cardinality(reply.rows) >= 2
  /\ \E e \in edges : Occurrences(reply.edges, e) = 2
  /\ Len(reply.node_list) < Len(reply.edges) + 1

(***************************************************************************)
(* The keys of the Address nodes: ingest/sample_loader.py, main.py and     *)
(* ingest/etherscan_ingest.py.  Only the two ingestion queries MERGE       *)
(* Address nodes; every other query MATCHes them.                          *)
(***************************************************************************)
\* _normalize_address, where it returns: address.strip().lower()
NormalizeSampleAddress(text) == Lower(Strip(text))

\* _normalize_address raises ValueError exactly when this is FALSE: the
\* text starts with 0x and has 42 characters.
SampleAddressOk(text) ==
  \E addr \in {NormalizeSampleAddress(text)} :
    /\ Len(addr) = 2 + ADDRESS_HEX_LEN
    /\ addr[1] = "0"
    /\ addr[2] = "x"

\* _load_transactions: an entry whose addresses or numbers do not parse is
\* skipped, the others become records with normalized addresses.
LoadTransactions(entries) ==
  {[hash |-> entry.hash,
    from_address |-> NormalizeSampleAddress(entry.from),
    to_address |-> NormalizeSampleAddress(entry.to)] :
     entry \in {x \in entries : /\ SampleAddressOk(x.from)
                                /\ SampleAddressOk(x.to)
                                /\ x.numbers_parse}}

\* UNWIND $transactions AS tx MERGE (sender:Address {address:
\* tx.from_address}) MERGE (receiver:Address {address: tx.to_address}) ...:
\* the relationships the query merges, between the nodes of those keys.
MergedByKey(transactions) ==
  {[from |-> InternKey(tx.from_address), to |-> InternKey(tx.to_address),
    hash |-> tx.hash] : tx \in transactions}

\* Everything ingest_sample_data may answer for a file of the given entries
\* (found FALSE: there is no file at the path).
SampleReplies(found, entries) ==
  IF ~found THEN {NotFound("sample", "validation")}
  ELSE IF LoadTransactions(entries) = {}
       THEN {BadRequest("sample", "validation")}
  ELSE DriverFaults("sample")
         \cup {BadRequest("sample", "driver") : x \in DriverFaults("sample")}
         \cup {BadGateway("sample", "store")}
         \cup {[op |-> "sample", status |-> 200, cause |-> "none",
                 transaction_count |-> Cardinality(LoadTransactions(entries)),
                 unique_addresses |->
                   Cardinality({tx.from_address :
                                  tx \in LoadTransactions(entries)}
                                 \cup {tx.to_address :
                                         tx \in LoadTransactions(entries)})]}

\* POST /ingest/sample
LoadSampleTransactions(found, entries) ==
  \E merged \in {MergedByKey(LoadTransactions(entries))} :
    /\ Receive
    /\ request' = [op |-> "sample", found |-> found, entries |-> entries]
    /\ reply' \in SampleReplies(found, entries)
    /\ IF reply'.status = 200
       THEN /\ nodes' = nodes \cup {tx.from : tx \in merged}
                              \cup {tx.to : tx \in merged}
            /\ edges' = edges \cup merged
            /\ rels' = MergeSent(merged)
            /\ last' = [op |-> "sample", ret |-> reply'.transaction_count]
       ELSE UNCHANGED <<nodes, edges, rels, last>>
    /\ UseDriver(reply'.cause \in {"store", "none"})
    /\ UNCHANGED <<cluster_id, risk_score, is_sanctioned, alert_severity,
                   runVars, scoreVars, first_id>>

\* Everything ingest_transactions may answer when the provider sends the
\* given payload.
FetchedReplies(text, payload) ==
  IF ~IsValidEthAddress(text) THEN {BadRequest("ingest", "address")}
  ELSE DriverFaults("ingest")
         \cup {BadRequest("ingest", "driver") : x \in DriverFaults("ingest")}
         \cup {BadRequest("ingest", "config"), BadGateway("ingest", "store")}
         \cup LET outcome == FetchTransactions(payload)
              IN  IF outcome.kind = "ok"
                  THEN {[op |-> "ingest", status |-> 200, cause |-> "none",
                         fetched_count |-> Cardinality(outcome.transactions),
                         ingested_count |->
                           Cardinality(outcome.transactions)]}
                  ELSE IF outcome.exc = "ValueError"
                       THEN {BadRequest("ingest", "provider")}
                  ELSE {BadGateway("ingest", "provider")}

\* GET /ingest/{address}, from the payload of the provider on.
IngestFetched(text, payload) ==
  \E outcome \in {FetchTransactions(payload)} :
    \E merged \in {IF outcome.kind = "ok"
                   THEN MergedByKey(outcome.transactions) ELSE {}} :
      /\ Receive
      /\ request' = [op |-> "ingest", address |-> text, payload |-> payload]
      /\ reply' \in FetchedReplies(text, payload)
      /\ IF reply'.status = 200
         THEN /\ nodes' = nodes \cup {tx.from : tx \in merged}
                                \cup {tx.to : tx \in merged}
              /\ edges' = edges \cup merged
              /\ rels' = MergeSent(merged)
              /\ last' = [op |-> "ingest", ret |-> reply'.ingested_count]
         ELSE UNCHANGED <<nodes, edges, rels, last>>
      /\ UseDriver(reply'.cause \notin {"address", "driver"})
      /\ UNCHANGED <<cluster_id, risk_score, is_sanctioned, alert_severity,
                     runVars, scoreVars, first_id>>

\* Entries of a sample file: capital digits and white space, no hex digits,
\* a digit short, a number that does not parse.
SampleEntries ==
  {[hash |-> 1, from |-> UpperText(1), to |-> PaddedText(2),
    numbers_parse |-> TRUE],
   [hash |-> 2, from |-> NonHexText, to |-> AddrText(1),
    numbers_parse |-> TRUE],
   [hash |-> 3, from |-> ShortText(2), to |-> AddrText(1),
    numbers_parse |-> TRUE],
   [hash |-> 4, from |-> AddrText(2), to |-> AddrText(3),
    numbers_parse |-> FALSE]}

\* Items of the provider: those of ProviderItems and one whose sender has
\* white space around it.
KeyItems ==
  ProviderItems \cup {[hash |-> 3, from |-> PaddedText(1), to |-> AddrText(2)]}

KeyPayloads ==
  {[status |-> "1", message |-> SaysOk, result |-> ListResult(items)] :
     items \in SUBSET KeyItems}
    \cup {[status |-> "0", message |-> SaysNotOk, result |-> TextResult(t)] :
            t \in {SaysRateLimit, SaysInvalidAddress}}

InitKeys == Ingested({}) /\ budget = MaxCalls

NextKeys ==
  \/ \E found \in BOOLEAN, entries \in SUBSET SampleEntries :
       LoadSampleTransactions(found, entries)
  \/ \E text \in IngestTexts, payload \in KeyPayloads :
       IngestFetched(text, payload)
  \/ \E b \in {0, 1} : Start(1, b)
  \/ Fetch(1)
  \/ Component(1)
  \/ Assign(1)
  \/ ScoreFetch
  \/ \E results \in [score_rows -> CoarseScores] : ScoreWrite(results)
  \/ \E a \in SeverityAddrs : MarkSanctioned(<<AddrText(a)>>)
  \/ EvaluateSeverity

SpecKeys == InitKeys /\ [][NextKeys]_vars

\* The text is 0x and forty lowercase hex digits.
IsCanonical(text) ==
  /\ Len(text) = 2 + ADDRESS_HEX_LEN
  /\ text[1] = "0"
  /\ text[2] = "x"
  /\ \A i \in 3..Len(text) : text[i] \in LowerHex

\* C25: the key of every Address node is 0x and forty lowercase hex digits,
\* and no two keys of the store are spellings of one address.
C25_KeysAreCanonical ==
  /\ \A k \in nodes : IsCanonical(KeyText(k))
  /\ \A k \in nodes, other \in nodes :
       normalize_eth_address(KeyText(k)) = normalize_eth_address(KeyText(other))
         => k = other

\* C26: an address that is sanctioned has alert severity HIGH, whatever
\* marking, severity evaluation, scoring, clustering or ingestion ran.
C26_SanctionedIsHigh ==
  \A a \in nodes : is_sanctioned[a] => alert_severity[a] = "HIGH"

\* The severities were evaluated over a store that holds a sanctioned
\* address whose risk score alone would not make it HIGH.
C26_Witness ==
  /\ last.op = "evaluate"
  /\ \E a \in nodes :
       /\ is_sanctioned[a]
       /\ Coalesce(risk_score[a], 0) < HIGH_RISK

(***************************************************************************)
(* Clustering requests, two at a time, over a store of separate           *)
(* components that ingestion joins.                                        *)
(***************************************************************************)
\* Addresses 1 and 2 are joined, address 3 sent to itself only.
Islands == {ChainTx(1), [from |-> 3, to |-> 3, hash |-> 3]}

\* A transfer between 2 and 3 joins the two components.
IslandPool == Islands \cup {ChainTx(2)}

\* The store holds the two components, or one chain over every address of
\* Addr, which is longer than the depth of the pattern.
InitMerge ==
  /\ Ingested(Islands) \/ Ingested(Chain(NumAddr))
  /\ budget = MaxCalls

\* batch_size as the requests give it: absent or 1 over the small store, 1
\* over the chain.
MergeBatches == IF Cardinality(nodes) > SmallStore THEN {1} ELSE {0, 1}

NextMerge ==
  \/ \E tx \in IslandPool : Ingest({tx})
  \/ \E r \in Runs, b \in MergeBatches : Start(r, b)
  \/ \E r \in Runs : Fetch(r)
  \/ \E r \in Runs : Component(r)
  \/ \E r \in Runs : Assign(r)
  \/ \E r \in Runs : Fail(r)

SpecMerge == InitMerge /\ [][NextMerge]_vars

\* The seed address an identifier was generated for.
SeedOf(id) == ((id - 1) \div Cardinality(Runs)) + 1

\* C27: two addresses with the same cluster_id lie in one undirected
\* component, each within MAX_CLUSTER_DEPTH undirected hops of the seed
\* address the identifier was generated for.
C27_ClustersNeverMergeUnrelated ==
  \A a \in nodes :
    cluster_id[a] # NULL
      => /\ \E near \in {Within(SeedOf(cluster_id[a]), MAX_CLUSTER_DEPTH)} :
              a \in near
         /\ \E component \in {TrueComponent(a)} :
              \A b \in nodes :
                cluster_id[b] = cluster_id[a] => b \in component

\* Both requests assigned identifiers: two addresses share one, and an
\* address of another component carries another.
C27_Witness ==
  /\ \A r \in Runs : calls[r] >= 1
  /\ \E a \in nodes, b \in nodes, c \in nodes :
       /\ a # b
       /\ cluster_id[a] # NULL
       /\ cluster_id[a] = cluster_id[b]
       /\ c \notin TrueComponent(a)
       /\ cluster_id[c] # NULL
       /\ cluster_id[c] # cluster_id[a]

(***************************************************************************)
(* Two clustering requests at once over a store that does not change and   *)
(* does not fail; every query is one atomic step.                          *)
(***************************************************************************)
\* The store holds the two small components, a chain as long as the depth
\* of the pattern reaches, or one that is an address longer; no address
\* has a cluster_id.
InitPair ==
  /\ \/ Ingested(Islands)
     \/ Ingested(Chain(MAX_CLUSTER_DEPTH + 1))
     \/ Ingested(Chain(NumAddr))
  /\ budget = MaxCalls

NextPair ==
  \/ \E r \in Runs, b \in MergeBatches : Start(r, b)
  \/ \E r \in Runs : Fetch(r)
  \/ \E r \in Runs : Component(r)
  \/ \E r \in Runs : Assign(r)

\* Each request thread runs on: its next query returns.
SpecPair ==
  /\ InitPair
  /\ [][NextPair]_vars
  /\ \A r \in Runs : WF_vars(Fetch(r)) /\ WF_vars(Component(r)) /\ WF_vars(Assign(r))

\* Request r is between its first query and its answer.
Running(r) == pc[r] \in {"fetch", "component", "assign"}

\* Both requests ran, the second while the first was running, and both
\* have answered.
BothAnswered ==
  /\ \A r \in Runs : calls[r] >= 1
  /\ \A r \in Runs : pc[r] = "done"

\* C28: over a store whose components fit into the depth of the pattern,
\* two requests that run at once both answer, and afterwards the addresses
\* of each component share one cluster_id.
C28_ConcurrentRunsAgree ==
  /\ [](BothAnswered /\ DiameterWithinDepth
          => \A a \in nodes :
               /\ cluster_id[a] # NULL
               /\ \E component \in {TrueComponent(a)} :
                    \A b \in component : cluster_id[b] = cluster_id[a])
  /\ \A r \in Runs : Running(r) ~> pc[r] = "done"

\* Both requests have answered, each after it assigned to the members of a
\* component of more than one address.
C28_Witness ==
  /\ BothAnswered
  /\ DiameterWithinDepth
  /\ \A r \in Runs : assigned_total[r] > 1
  /\ \E a \in nodes, b \in nodes : a # b /\ cluster_id[a] = cluster_id[b]

=============================================================================
